---- MODULE Spec2Model ----
(***************************************************************************)
(* One run of SimpleHTTPRequestHandler.do_POST of                          *)
(* open-template-in-editor-save-file-sample.py: the handler creates a      *)
(* project (create_project), polls its processing results                  *)
(* (check_project_results) in a sleep-then-check loop, downloads the       *)
(* output files (download_file) and writes one response to the caller.     *)
(* A Python exception that leaves do_POST is caught by socketserver, which *)
(* closes the connection: nothing is written to the caller.                *)
(* Spec follows the run of one request; SpecServer follows the            *)
(* single-threaded HTTPServer over several requests.                       *)
(***************************************************************************)
EXTENDS Integers, Sequences, FiniteSets, TLC

\* ------------------------------------------------------------------ bounds
\* Longest outputFileDetails list a Completed answer carries in the model.
MaxFiles == 2

\* Requests the server spec lets arrive.
MaxRequests == 2
\* Poll attempts the server spec follows each run for.
MaxServerPolls == 2
\* Longest outputFileDetails list the server spec follows a run with.
MaxServerFiles == 1

\* ----------------------------------------------------- program constants
\* `counter < 20` of the polling loop.
maxAttempts == 20
\* `time.sleep(3)`.
interval == 3

\* ------------------------------------------------------------ environment
\* result_info["name"] values the remote service may send.
Names == {"front", "back"}
\* result_info["url"] values the remote service may send.
Urls == {"u1", "u2", "u3"}
\* The body served at each url, as the sequence of chunks r.read(chunk_size)
\* hands back before it returns the empty chunk (u3 is an empty body).
RemoteContent(u) ==
    CASE u = "u1" -> <<"a", "b">>
      [] u = "u2" -> <<"c">>
      [] OTHER    -> <<>>
\* Bytes a file may hold on disk before the run starts.
StaleContent == <<"old", "old2", "old3">>

\* project_results["status"] values; "Cancelled" stands for any status that
\* is none of the four the code comments name.
Statuses == {"Pending", "InProgress", "Completed", "Failed", "Cancelled"}
\* project_results "statusDescription" values of a Failed answer.
Descriptions == {"", "render error"}
\* ids the create call may answer with; "" is the empty id.
ProjectIds == {"", "p1"}

\* The sequences over S of length at most n.
RECURSIVE SeqsUpTo(_, _)
SeqsUpTo(S, n) ==
    IF n = 0 THEN {<<>>}
    ELSE LET shorter == SeqsUpTo(S, n - 1)
         IN  shorter \cup {Append(s, x) : s \in {t \in shorter : Len(t) = n - 1}, x \in S}

\* One element of outputFileDetails.
Descriptors == [url : Urls, name : Names]
DescriptorLists == SeqsUpTo(Descriptors, MaxFiles)

\* The dict json.loads returns in check_project_results, by the keys do_POST reads.
Results(hasStatus, status, hasDetails, details, hasDesc, desc) ==
    [hasStatus |-> hasStatus, status |-> status,
     hasDetails |-> hasDetails, outputFileDetails |-> details,
     hasDesc |-> hasDesc, statusDescription |-> desc]
NoResults == Results(FALSE, "", FALSE, <<>>, FALSE, "")
\* Every processing-results answer the remote service may give.
Answers ==
    {Results(TRUE, s, FALSE, <<>>, FALSE, "") : s \in Statuses \ {"Completed", "Failed"}}
    \cup {Results(TRUE, "Completed", TRUE, l, FALSE, "") : l \in DescriptorLists}
    \cup {Results(TRUE, "Completed", FALSE, <<>>, FALSE, "")}
    \cup {Results(TRUE, "Failed", TRUE, <<>>, TRUE, d) : d \in Descriptions}
    \cup {Results(TRUE, "Failed", FALSE, <<>>, FALSE, "")}
    \cup {Results(FALSE, "", FALSE, <<>>, FALSE, "")}

\* The dict json.loads returns in create_project, by the key do_POST reads.
Project(hasId, id) == [hasId |-> hasId, id |-> id]
NoProject == Project(FALSE, "")

VARIABLES
    pc,               \* position of the handler in do_POST
    project,          \* local `project`
    isPending,        \* local `isPending`
    isSuccess,        \* local `isSuccess`
    failureDetails,   \* local `failureDetails`
    counter,          \* local `counter`
    project_results,  \* local `project_results`
    file_details,     \* the part of `file_details` the for loop has not reached
    files,            \* local storage: file name -> chunks written
    connsHeld,        \* pool connections acquired and not released
    wfile,            \* responses written to the caller
    error,            \* the exception that left do_POST, "" when none
    creates,          \* create_project calls made
    queries,          \* check_project_results calls made
    queriedIds,       \* project ids the status queries were made with
    downloads,        \* download_file calls made, in order
    waits,            \* time.sleep calls made
    elapsed,          \* time units slept
    terminalAt,       \* number of the query that first answered Completed/Failed
    terminalAnswer,   \* that answer
    answered,         \* the status all answers of the run had, "mixed" when they differ
    backlog,          \* requests waiting on the listening socket
    arrived,          \* requests that reached the server
    served            \* requests whose do_POST call is over and left behind

locals == <<isPending, isSuccess, failureDetails, counter>>
disk   == <<files, connsHeld>>
calls  == <<creates, queries, queriedIds, downloads, waits, elapsed>>
firsts == <<terminalAt, terminalAnswer, answered>>
server == <<backlog, arrived, served>>
vars   == <<pc, project, locals, project_results, file_details, disk, wfile,
           error, calls, firsts, server>>

\* The local name without the extension.
FileName_NoExtension(name) == <<name>>

\* f'{result_info["name"]}.pdf'
FileName(name) == <<name, "pdf">>
FileNames == {FileName(n) : n \in Names}

\* The function f with f[k] set to v, k added to its domain when new.
Put(f, k, v) == [x \in DOMAIN f \cup {k} |-> IF x = k THEN v ELSE f[x]]
EmptyDisk == [x \in {} |-> <<>>]

Init ==
    /\ pc = "idle"
    /\ project = NoProject
    /\ isPending = TRUE
    /\ isSuccess = FALSE
    /\ failureDetails = ""
    /\ counter = 0
    /\ project_results = NoResults
    /\ file_details = <<>>
    /\ files \in {EmptyDisk} \cup {Put(EmptyDisk, fn, StaleContent) : fn \in FileNames}
    /\ connsHeld = 0
    /\ wfile = <<>>
    /\ error = ""
    /\ creates = 0
    /\ queries = 0
    /\ queriedIds = {}
    /\ downloads = <<>>
    /\ waits = 0
    /\ elapsed = 0
    /\ terminalAt = 0
    /\ terminalAnswer = NoResults
    /\ answered = "none"
    /\ backlog = 1
    /\ arrived = 1
    /\ served = 0

\* The exception caught around the loop body and polling resumed.
Raise_Continue(e) ==
    /\ pc' = "loop"
    /\ error' = e

\* An exception leaves do_POST: the handler stops where it is.
Raise(e) ==
    /\ pc' = "raised"
    /\ error' = e

\* ------------------------------------------------------------ do_POST, submit
\* serve_forever taking a waiting request while a handler is still running
\* (a ThreadingHTTPServer).
Receive_Threaded ==
    /\ backlog > 0
    /\ backlog' = backlog - 1
    /\ \E bodyOk \in BOOLEAN :
         IF bodyOk
         THEN /\ pc' = "create"
              /\ UNCHANGED error
         ELSE Raise("KeyError")
    /\ UNCHANGED <<project, locals, project_results, file_details, disk, wfile,
                   calls, firsts, arrived, served>>

\* Lines 475-476 and 402-407: HTTPServer.serve_forever takes one waiting request
\* when no handler is running and calls do_POST in the same thread; the
\* request body is read and decoded, and a body that is not JSON or lacks
\* 'stateId'/'userId' raises.
Receive ==
    /\ pc = "idle"
    /\ backlog > 0
    /\ backlog' = backlog - 1
    /\ \E bodyOk \in BOOLEAN :
         IF bodyOk
         THEN /\ pc' = "create"
              /\ UNCHANGED error
         ELSE Raise("KeyError")
    /\ UNCHANGED <<project, locals, project_results, file_details, disk, wfile,
                   calls, firsts, arrived, served>>

\* What the render-hires call may end in: get_access_token finds no
\* 'access_token' (credentials rejected), the transport fails, the body is not
\* JSON, or the body is a JSON object with or without an "id".
SubmitErrors == {"KeyError", "MaxRetryError", "JSONDecodeError"}
SubmitResponses == {Project(FALSE, "")} \cup {Project(TRUE, id) : id \in ProjectIds}

\* create_project returns the decoded response as it is: no key is looked at.
CreateProjectResult(response) == response

\* Line 411 with create_project (134-165), then lines 418-421.
CreateProject ==
    /\ pc = "create"
    /\ creates' = creates + 1
    /\ \/ \E e \in SubmitErrors :
            /\ Raise(e)
            /\ UNCHANGED <<project, locals>>
       \/ \E response \in SubmitResponses :
            /\ project' = CreateProjectResult(response)
            /\ isPending' = TRUE
            /\ isSuccess' = FALSE
            /\ failureDetails' = ""
            /\ counter' = 0
            /\ pc' = "loop"
            /\ UNCHANGED error
    /\ UNCHANGED <<project_results, file_details, disk, wfile, queries,
                   queriedIds, downloads, waits, elapsed, firsts, server>>

\* ------------------------------------------------------------ do_POST, polling
\* The loop test with the cap off by one (`counter <= 20`).
LoopCond_OffByOne(pending, c) == pending /\ c <= maxAttempts

\* Line 423: `while isPending and counter < 20`.
LoopCond(pending, c) == pending /\ c < maxAttempts

LoopTest ==
    /\ pc = "loop"
    /\ pc' = IF LoopCond(isPending, counter) THEN "sleep" ELSE "respond"
    /\ UNCHANGED <<project, locals, project_results, file_details, disk, wfile,
                   error, calls, firsts, server>>

\* The wait skipped on the first iteration (sleep only between polls).
Sleep_SkipFirst ==
    /\ pc = "sleep"
    /\ waits' = IF counter = 0 THEN waits ELSE waits + 1
    /\ elapsed' = IF counter = 0 THEN elapsed ELSE elapsed + interval
    /\ pc' = "query"
    /\ UNCHANGED <<project, locals, project_results, file_details, disk, wfile,
                   error, creates, queries, queriedIds, downloads, firsts, server>>

\* Line 424: `time.sleep(3)`, first statement of every iteration.
Sleep ==
    /\ pc = "sleep"
    /\ waits' = waits + 1
    /\ elapsed' = elapsed + interval
    /\ pc' = "query"
    /\ UNCHANGED <<project, locals, project_results, file_details, disk, wfile,
                   error, creates, queries, queriedIds, downloads, firsts, server>>

\* `project.get("id")`: a missing key raises nothing.
HasId_Always(p) == TRUE

\* Line 430: `project["id"]` raises KeyError when the dict has no "id" key.
HasId(p) == p.hasId

QueryErrors == {"KeyError", "MaxRetryError", "JSONDecodeError"}
IsTerminal(status) == status \in {"Completed", "Failed"}

\* The summary of the statuses answered once `status` is added to `seen`.
StatusSummary(seen, status) ==
    IF seen \in {"none", status} THEN status ELSE "mixed"

\* Lines 430-431: project["id"] is evaluated first (KeyError when the create
\* response had no id, before any call), then check_project_results (167-183)
\* is called, then project_results["status"] is read.
CheckProjectResults ==
    /\ pc = "query"
    /\ IF ~HasId(project)
       THEN /\ Raise("KeyError")
            /\ UNCHANGED <<project_results, queries, queriedIds, firsts>>
       ELSE /\ queries' = queries + 1
            /\ queriedIds' = queriedIds \cup {project.id}
            /\ \/ \E e \in QueryErrors :
                    /\ Raise(e)
                    /\ UNCHANGED <<project_results, firsts>>
               \/ \E answer \in Answers :
                    /\ project_results' = answer
                    /\ IF answer.hasStatus
                       THEN /\ pc' = "branch"
                            /\ UNCHANGED error
                       ELSE Raise("KeyError")
                    /\ IF answer.hasStatus /\ IsTerminal(answer.status) /\ terminalAt = 0
                       THEN /\ terminalAt' = queries + 1
                            /\ terminalAnswer' = answer
                       ELSE UNCHANGED <<terminalAt, terminalAnswer>>
                    /\ answered' = IF answer.hasStatus
                                   THEN StatusSummary(answered, answer.status)
                                   ELSE answered
    /\ UNCHANGED <<project, locals, file_details, disk, wfile, creates,
                   downloads, waits, elapsed, server>>

\* Lines 433-435: the Completed branch reads project_results["outputFileDetails"].
BranchCompleted ==
    /\ pc = "branch"
    /\ project_results.status = "Completed"
    /\ IF project_results.hasDetails
       THEN /\ file_details' = project_results.outputFileDetails
            /\ pc' = "fetch"
            /\ UNCHANGED error
       ELSE /\ Raise("KeyError")
            /\ UNCHANGED file_details
    /\ UNCHANGED <<project, locals, project_results, disk, wfile, calls, firsts, server>>

\* The Failed branch falling through to `counter += 1` with isPending left set.
BranchFailed_FallThrough ==
    /\ pc = "branch"
    /\ project_results.status = "Failed"
    /\ counter' = counter + 1
    /\ pc' = "loop"
    /\ UNCHANGED <<project, isPending, isSuccess, failureDetails,
                   project_results, file_details, disk, wfile, error, calls, firsts, server>>

\* Lines 445-452: `project_results.statusDescription` is an attribute access on
\* the dict json.loads returned, which raises AttributeError whatever the dict
\* holds; lines 451-452 and 456 are not reached.
BranchFailed ==
    /\ pc = "branch"
    /\ project_results.status = "Failed"
    /\ Raise("AttributeError")
    /\ UNCHANGED <<project, locals, project_results, file_details, disk, wfile,
                   calls, firsts, server>>

\* The fall-through with a status outside Pending/InProgress ending the poll.
BranchOther_UnknownStops ==
    /\ pc = "branch"
    /\ project_results.status \notin {"Completed", "Failed"}
    /\ isPending' = (project_results.status \in {"Pending", "InProgress"})
    /\ counter' = counter + 1
    /\ pc' = "loop"
    /\ UNCHANGED <<project, isSuccess, failureDetails,
                   project_results, file_details, disk, wfile, error, calls, firsts, server>>

\* Lines 454-456: any other status falls through to `counter += 1`.
BranchOther ==
    /\ pc = "branch"
    /\ project_results.status \notin {"Completed", "Failed"}
    /\ counter' = counter + 1
    /\ pc' = "loop"
    /\ UNCHANGED <<project, isPending, isSuccess, failureDetails,
                   project_results, file_details, disk, wfile, error, calls, firsts, server>>

\* ------------------------------------------------------------ download_file
\* Lines 191-195: chunks are read until the empty chunk and written in order.
RECURSIVE CopyChunks(_, _)
CopyChunks(remaining, out) ==
    IF remaining = <<>> THEN out
    ELSE CopyChunks(Tail(remaining), Append(out, Head(remaining)))

\* The file opened without truncation ('r+b'): what the old content held past
\* the new chunks stays.
WriteFile_InPlace(old, chunks) ==
    CopyChunks(chunks, <<>>) \o SubSeq(old, Len(chunks) + 1, Len(old))

\* Line 189: open(filename, 'wb') truncates whatever the file held, then the
\* chunks read are written.
WriteFile(old, chunks) == CopyChunks(chunks, <<>>)

\* What the file held before the call (nothing when it did not exist).
OldContent(fn) == IF fn \in DOMAIN files THEN files[fn] ELSE <<>>

\* How a download_file call may end: "RequestError" (the token or the GET
\* raises, line 187), "OpenError" (open raises, line 189), "StreamError" (r.read
\* or out.write raises after some chunks, lines 192-195), "Ok".
DownloadResults == {"RequestError", "OpenError", "StreamError", "Ok"}

\* Line 197 is the only release of the connection line 187 acquired, and it is
\* reached only when nothing raised in between.
ConnsAfter(held, result) ==
    IF result \in {"OpenError", "StreamError"} THEN held + 1 ELSE held

\* download_file(url, filename), lines 186-197, ending in `result` after
\* `got` chunks were read and written.
DownloadFile(url, fn, result, got) ==
    /\ downloads' = Append(downloads, [url |-> url, file |-> fn, result |-> result])
    /\ connsHeld' = ConnsAfter(connsHeld, result)
    /\ files' = CASE result = "Ok"          -> Put(files, fn, WriteFile(OldContent(fn), RemoteContent(url)))
                  [] result = "StreamError" -> Put(files, fn, WriteFile(OldContent(fn), SubSeq(RemoteContent(url), 1, got)))
                  [] OTHER                  -> files

\* The descriptor the for loop of line 436 takes next.
NextDescriptor(details) == Head(details)

\* The for loop with a failed download skipped (`except: continue`).
Download_SkipFailed ==
    /\ pc = "fetch"
    /\ file_details # <<>>
    /\ LET d == NextDescriptor(file_details) IN
       \E result \in DownloadResults :
       \E got \in 0..Len(RemoteContent(d.url)) :
          /\ result # "StreamError" => got = Len(RemoteContent(d.url))
          /\ DownloadFile(d.url, FileName(d.name), result, got)
          /\ file_details' = Tail(file_details)
          /\ UNCHANGED <<pc, error>>
    /\ UNCHANGED <<project, locals, project_results, wfile, creates, queries,
                   queriedIds, waits, elapsed, firsts, server>>

\* Lines 436-440: one iteration of `for result_info in file_details`.
Download ==
    /\ pc = "fetch"
    /\ file_details # <<>>
    /\ LET d == NextDescriptor(file_details) IN
       \E result \in DownloadResults :
       \E got \in 0..Len(RemoteContent(d.url)) :
          /\ result # "StreamError" => got = Len(RemoteContent(d.url))
          /\ DownloadFile(d.url, FileName(d.name), result, got)
          /\ IF result = "Ok"
             THEN /\ file_details' = Tail(file_details)
                  /\ UNCHANGED <<pc, error>>
             ELSE /\ Raise(IF result = "RequestError" THEN "MaxRetryError" ELSE "OSError")
                  /\ UNCHANGED file_details
    /\ UNCHANGED <<project, locals, project_results, wfile, creates, queries,
                   queriedIds, waits, elapsed, firsts, server>>

\* The end of the Completed branch without `isPending = False`.
FetchDone_KeepPending ==
    /\ pc = "fetch"
    /\ file_details = <<>>
    /\ isSuccess' = TRUE
    /\ counter' = counter + 1
    /\ pc' = "loop"
    /\ UNCHANGED <<project, isPending, failureDetails, project_results,
                   file_details, disk, wfile, error, calls, firsts, server>>

\* Lines 442-443 and 456, after the for loop has run out.
FetchDone ==
    /\ pc = "fetch"
    /\ file_details = <<>>
    /\ isPending' = FALSE
    /\ isSuccess' = TRUE
    /\ counter' = counter + 1
    /\ pc' = "loop"
    /\ UNCHANGED <<project, failureDetails, project_results, file_details, disk,
                   wfile, error, calls, firsts, server>>

\* ------------------------------------------------------------ do_POST, response
SuccessText == "Successfully saved a file."
FailureText == "Failed to render a file."

\* The response with the test of `isSuccess` inverted.
ResponseBody_Inverted(success, details) ==
    IF ~success THEN <<SuccessText>>
    ELSE IF details = "" THEN <<FailureText>>
    ELSE <<FailureText, details>>

\* Lines 458-470: the bytes written to `response`, as the parts that make them
\* up; writing the empty string adds nothing.
ResponseBody(success, details) ==
    IF success THEN <<SuccessText>>
    ELSE IF details = "" THEN <<FailureText>>
    ELSE <<FailureText, details>>

\* Lines 458-472: both branches answer 200 and write the body once.
SendResponse ==
    /\ pc = "respond"
    /\ wfile' = Append(wfile, [status |-> 200, body |-> ResponseBody(isSuccess, failureDetails)])
    /\ pc' = "done"
    /\ UNCHANGED <<project, locals, project_results, file_details, disk, error,
                   calls, firsts, server>>

Next ==
    \/ Receive
    \/ CreateProject
    \/ LoopTest
    \/ Sleep
    \/ CheckProjectResults
    \/ BranchCompleted
    \/ BranchFailed
    \/ BranchOther
    \/ Download
    \/ FetchDone
    \/ SendResponse

Spec == Init /\ [][Next]_vars

\* ------------------------------------------------------------ the server
\* Line 475: the listening socket of HTTPServer queues a request a client
\* sends, whatever the handler is doing.
Arrive ==
    /\ arrived < MaxRequests
    /\ arrived' = arrived + 1
    /\ backlog' = backlog + 1
    /\ UNCHANGED <<pc, project, locals, project_results, file_details, disk,
                   wfile, error, calls, firsts, served>>

\* Line 476: do_POST has returned or raised; serve_forever closes the
\* connection and goes back to waiting for a request. The frame of the call
\* with its locals is gone and what was observed of the run is cleared; the
\* files and the connection pool stay.
Return ==
    /\ pc \in {"done", "raised"}
    /\ pc' = "idle"
    /\ served' = served + 1
    /\ project' = NoProject
    /\ isPending' = TRUE
    /\ isSuccess' = FALSE
    /\ failureDetails' = ""
    /\ counter' = 0
    /\ project_results' = NoResults
    /\ file_details' = <<>>
    /\ wfile' = <<>>
    /\ error' = ""
    /\ creates' = 0
    /\ queries' = 0
    /\ queriedIds' = {}
    /\ downloads' = <<>>
    /\ waits' = 0
    /\ elapsed' = 0
    /\ terminalAt' = 0
    /\ terminalAnswer' = NoResults
    /\ answered' = "none"
    /\ UNCHANGED <<disk, backlog, arrived>>

\* A step of the one handler thread, followed for MaxServerPolls attempts and
\* answers of at most MaxServerFiles descriptors.
HandlerStep ==
    /\ Next
    /\ counter' <= MaxServerPolls
    /\ Len(project_results'.outputFileDetails) <= MaxServerFiles

NextServer ==
    \/ Arrive
    \/ HandlerStep
    \/ Return

\* The server with several requests: the single run of Spec, then the next.
SpecServer == Init /\ [][NextServer]_vars

\* =================================================================== claims
\* The run is over: a response was written, or an exception left do_POST.
Ended == pc \in {"done", "raised"}
\* The two outcomes the caller can be given.
SuccessOutcome == [status |-> 200, body |-> <<"Successfully saved a file.">>]
FailureOutcome(reason) ==
    [status |-> 200,
     body |-> IF reason = "" THEN <<"Failed to render a file.">>
              ELSE <<"Failed to render a file.", reason>>]
\* The first terminal answer of the run was Completed / Failed.
CompletedAtK == terminalAt > 0 /\ terminalAnswer.status = "Completed"
FailedAtK == terminalAt > 0 /\ terminalAnswer.status = "Failed"
AllDownloadsOk == \A i \in 1..Len(downloads) : downloads[i].result = "Ok"

\* C1: in every run the number of status queries (check_project_results
\* calls) never exceeds maxAttempts = 20, whatever the remote service answers.
C1_QueriesWithinBudget == queries <= maxAttempts
\* A run that used the whole budget.
C1_Witness == queries = maxAttempts /\ pc = "done"

\* C2 as stated: non-terminal answers on queries 1..k-1 and Completed on
\* query k give exactly k queries and a run that ends with the success outcome.
C2_Original ==
    (CompletedAtK /\ terminalAnswer.hasDetails /\ project.id # "" /\ Ended) =>
        (queries = terminalAt /\ wfile = <<SuccessOutcome>>)
\* C2 as amended: after Completed on query k the job is never queried again
\* (the run makes exactly k queries); the run ends with the success outcome
\* when the answer carries outputFileDetails and every download finishes
\* without error, and it ends with an exception only when one of these failed.
C2_CompletedAtK ==
    CompletedAtK =>
        /\ queries = terminalAt
        /\ pc \in {"branch", "fetch", "loop", "respond", "done", "raised"}
        /\ pc = "done" => wfile = <<SuccessOutcome>>
        /\ pc = "raised" => (~terminalAnswer.hasDetails \/ ~AllDownloadsOk)
\* Statuses [Pending, InProgress, Completed]: three queries, then success.
C2_Witness ==
    /\ CompletedAtK
    /\ terminalAt = 3
    /\ queries = 3
    /\ pc = "done"
    /\ wfile = <<SuccessOutcome>>
    /\ Len(downloads) = 1

\* C3: when the status first becomes Failed on query k, polling stops at
\* query k: no status query and no download is made after that answer.
C3_FailedStops ==
    FailedAtK =>
        /\ queries = terminalAt
        /\ downloads = <<>>
        /\ pc \in {"branch", "raised"}
\* Failed on the second query, and the run is over.
C3_Witness == FailedAtK /\ terminalAt = 2 /\ queries = 2 /\ Ended

\* C4: when the status becomes Failed on query k with description d (possibly
\* absent or empty), the run ends with a failure outcome returned to the
\* caller whose reason carries d.
C4_FailedReported ==
    (FailedAtK /\ Ended) =>
        wfile = <<FailureOutcome(IF terminalAnswer.hasDesc
                                 THEN terminalAnswer.statusDescription ELSE "")>>

\* All maxAttempts answers of the run were non-terminal and were handled.
TimedOut == terminalAt = 0 /\ counter = maxAttempts
C6_FailureDistinguished ==
    (FailedAtK /\ Ended) =>
        /\ Len(wfile) = 1
        /\ wfile[1].body[1] = "Failed to render a file."
        /\ wfile[1] # FailureOutcome("")

\* The submit step failed: create_project raised, or its response holds no id.
SubmitRaised == pc = "raised" /\ creates = 1 /\ waits = 0
SubmitFailed == creates = 1 /\ (SubmitRaised \/ ~project.hasId)
\* C7: when the submit step fails the run makes no status query and no
\* download and returns a failure outcome to the caller.
C7_SubmitFailureReported ==
    (SubmitFailed /\ Ended) =>
        /\ queries = 0
        /\ downloads = <<>>
        /\ Len(wfile) = 1
        /\ wfile[1].body[1] = "Failed to render a file."

\* C8: every run that reached the submit step returns exactly one outcome to
\* the caller once it is over.
C8_ExactlyOneOutcome == (creates = 1 /\ Ended) => Len(wfile) = 1

\* The fetch step of a Completed answer ran to its end.
FetchFinished == CompletedAtK /\ terminalAnswer.hasDetails /\ isSuccess
\* The local files the downloads of this run opened.
FilesWritten ==
    {downloads[i].file : i \in {j \in 1..Len(downloads) : downloads[j].result \in {"Ok", "StreamError"}}}
\* One download per descriptor of l, in list order, each into {name}.pdf.
DownloadedInOrder(l) ==
    /\ Len(downloads) = Len(l)
    /\ \A i \in 1..Len(l) :
         downloads[i] = [url |-> l[i].url, file |-> <<l[i].name, "pdf">>, result |-> "Ok"]
\* The file of descriptor i of l holds that descriptor's remote bytes.
HoldsOwnBytes(l, i) ==
    /\ <<l[i].name, "pdf">> \in DOMAIN files
    /\ files[<<l[i].name, "pdf">>] = RemoteContent(l[i].url)

\* C9 as stated: a Completed answer with N descriptors (names possibly
\* repeated) gives one download per descriptor in list order and leaves exactly
\* N local files, each {name}.pdf holding its descriptor's remote bytes.
C9_Original ==
    FetchFinished =>
        LET l == terminalAnswer.outputFileDetails IN
        /\ DownloadedInOrder(l)
        /\ Cardinality(FilesWritten) = Len(l)
        /\ \A i \in 1..Len(l) : HoldsOwnBytes(l, i)
\* C9 as amended: one download per descriptor in list order; the files
\* written are one {name}.pdf per distinct name (N files only when the names
\* differ), each holding the remote bytes of the last descriptor of that name;
\* the run then ends with the success outcome.
C9_FetchWritesFiles ==
    FetchFinished =>
        LET l == terminalAnswer.outputFileDetails IN
        /\ DownloadedInOrder(l)
        /\ Cardinality(FilesWritten) = Cardinality({l[i].name : i \in 1..Len(l)})
        /\ \A i \in 1..Len(l) :
             (\A j \in (i + 1)..Len(l) : l[j].name # l[i].name) => HoldsOwnBytes(l, i)
        /\ pc = "done" => wfile = <<SuccessOutcome>>
\* Two descriptors with different names and bodies, fetched into two files.
C9_Witness ==
    /\ FetchFinished
    /\ pc = "done"
    /\ Len(terminalAnswer.outputFileDetails) = 2
    /\ Cardinality(FilesWritten) = 2
    /\ \A i \in 1..2 : HoldsOwnBytes(terminalAnswer.outputFileDetails, i)
    /\ files[<<"front", "pdf">>] # files[<<"back", "pdf">>]

\* The run is past create_project, which did not raise.
HandedToPolling == creates = 1 /\ pc # "create" /\ ~SubmitRaised
\* C10 as stated: for every remote response submit yields a job with a
\* non-empty id or fails; the polling step never gets a job without a usable id.
C10_Original == HandedToPolling => (project.hasId /\ project.id # "")
\* C10 as amended: submit fails only when the token, the transport or the JSON
\* decoding fails; any decoded response is handed to the polling step as it
\* is. A response with an empty id is polled under the empty id; a response
\* without an id makes the first polling iteration raise after its wait, before
\* any status query, and no outcome is returned.
C10_NoIdCheck ==
    /\ queries > 0 => (project.hasId /\ queriedIds = {project.id})
    /\ (HandedToPolling /\ ~project.hasId) =>
          /\ queries = 0
          /\ downloads = <<>>
          /\ waits <= 1
          /\ pc \in {"loop", "sleep", "query", "raised"}
          /\ pc = "raised" => (waits = 1 /\ error = "KeyError" /\ wfile = <<>>)
\* A job with the empty id was polled to the end of the run.
C10_Witness ==
    /\ project = [hasId |-> TRUE, id |-> ""]
    /\ queriedIds = {""}
    /\ queries > 1
    /\ pc = "done"

\* The last download_file call of the run raised.
DownloadFailed == downloads # <<>> /\ downloads[Len(downloads)].result # "Ok"
\* C11: when the download of descriptor i (of N) fails, the run ends as a hard
\* failure and reports no success; the files written for descriptors 1..i-1
\* stay on disk, no download is made for descriptors i+1..N and no further
\* status query is made.
C11_DownloadFailureAborts ==
    DownloadFailed =>
        LET l == terminalAnswer.outputFileDetails
            i == Len(downloads)
        IN  /\ pc = "raised"
            /\ error \in {"MaxRetryError", "OSError"}
            /\ wfile = <<>>
            /\ ~isSuccess
            /\ CompletedAtK
            /\ queries = terminalAt
            /\ i <= Len(l)
            /\ \A j \in 1..i :
                 /\ downloads[j].url = l[j].url
                 /\ downloads[j].file = <<l[j].name, "pdf">>
            /\ \A j \in 1..(i - 1) :
                 /\ downloads[j].result = "Ok"
                 /\ <<l[j].name, "pdf">> \in DOMAIN files
                 /\ (\A k \in (j + 1)..i : l[k].name # l[j].name) => HoldsOwnBytes(l, j)
\* The second of two downloads failed; the first file is still there.
C11_Witness ==
    /\ DownloadFailed
    /\ Len(downloads) = 2
    /\ downloads[1].file # downloads[2].file
    /\ downloads[1].file \in DOMAIN files
    /\ files[downloads[1].file] = <<"a", "b">>
    /\ pc = "raised"

\* Status query k ended in a transport error (queries made, none terminal,
\* no download yet).
QueryTransportError == error = "MaxRetryError" /\ queries >= 1 /\ downloads = <<>>
\* C12: a transport error raised by status query k aborts the run: the query
\* is not retried, no status query k+1 and no download follows, and no success
\* is reported.
C12_QueryErrorAborts ==
    QueryTransportError =>
        /\ pc = "raised"
        /\ terminalAt = 0
        /\ counter = queries - 1
        /\ waits = queries
        /\ wfile = <<>>
        /\ ~isSuccess
\* The third status query raised after two Pending/InProgress answers.
C12_Witness == QueryTransportError /\ queries = 3 /\ counter = 2 /\ pc = "raised"

\* C13: every download_file call releases the connection it acquired on every
\* exit path; once the call is over no connection is held.
C13_ConnectionReleased == downloads # <<>> => connsHeld = 0

\* C15: within one run the steps come in the order submit, poll, then fetch
\* and success, or failure, or timeout: exactly one create call is made and it
\* comes before every wait and status query, every download follows a
\* Completed answer, no status query follows a download, and nothing runs
\* again once the fetch is over.
C15_StepOrder ==
    /\ creates <= 1
    /\ pc \in {"loop", "sleep", "query", "branch", "fetch", "respond", "done"} => creates = 1
    /\ (queries > 0 \/ waits > 0) => (creates = 1 /\ ~SubmitRaised)
    /\ downloads # <<>> => (CompletedAtK /\ queries = terminalAt)
    /\ pc = "fetch" => (CompletedAtK /\ queries = terminalAt)
    /\ isSuccess => (~isPending /\ pc \in {"loop", "respond", "done"})
    /\ wfile # <<>> => pc = "done"
\* Submit, two queries, two downloads, response.
C15_Witness ==
    /\ pc = "done"
    /\ creates = 1
    /\ queries = 2
    /\ Len(downloads) = 2
    /\ isSuccess

C17_WaitBound ==
    /\ waits <= maxAttempts
    /\ elapsed = interval * waits
    /\ elapsed <= maxAttempts * interval
    /\ elapsed <= 60
\* A run that waited the full 60 units.
C17_Witness == elapsed = 60 /\ waits = 20 /\ pc = "done"

\* C18: when two descriptors of a Completed answer map to the same local name
\* both are downloaded and the last write wins: after the fetch the file holds
\* exactly the bytes of the later descriptor, none of the earlier one.
C18_LastWriteWins ==
    FetchFinished =>
        LET l == terminalAnswer.outputFileDetails IN
        /\ Len(downloads) = Len(l)
        /\ \A i \in 1..Len(l) : \A j \in (i + 1)..Len(l) :
             (l[i].name = l[j].name /\ \A k \in (j + 1)..Len(l) : l[k].name # l[j].name)
                => /\ downloads[i].file = downloads[j].file
                   /\ downloads[j].file \in DOMAIN files
                   /\ files[downloads[j].file] = RemoteContent(l[j].url)
\* A two-chunk body, then a one-chunk body under the same name: one chunk stays.
C18_Witness ==
    /\ FetchFinished
    /\ pc = "done"
    /\ terminalAnswer.outputFileDetails =
          <<[url |-> "u1", name |-> "front"], [url |-> "u2", name |-> "front"]>>
    /\ files[<<"front", "pdf">>] = <<"c">>

\* C19: the success outcome is returned only when a status query of the run
\* answered Completed and the download of every descriptor of that answer
\* finished without error; no other run returns it.
C19_SuccessOnlyAfterFetch ==
    (\E i \in 1..Len(wfile) : wfile[i] = SuccessOutcome) =>
        /\ CompletedAtK
        /\ terminalAnswer.hasDetails
        /\ Len(downloads) = Len(terminalAnswer.outputFileDetails)
        /\ AllDownloadsOk
        /\ wfile = <<SuccessOutcome>>
\* Success returned after the Completed answer of query 4 and one download.
C19_Witness ==
    /\ wfile = <<SuccessOutcome>>
    /\ terminalAt = 4
    /\ Len(downloads) = 1
    /\ AllDownloadsOk

\* Every answer of the run so far had status s, and the run is where a run of
\* non-terminal answers is: the status cost one attempt each time, polling
\* goes on until the budget is used, and the run then ends in the failure
\* outcome with an empty reason.
TreatedAsNonTerminal(s) ==
    answered = s =>
        /\ terminalAt = 0
        /\ downloads = <<>>
        /\ isPending /\ ~isSuccess /\ failureDetails = ""
        /\ pc \in {"branch", "loop", "sleep", "query", "respond", "done", "raised"}
        /\ pc = "branch" => counter = queries - 1
        /\ pc \in {"loop", "sleep", "query", "respond", "done"} => counter = queries
        /\ pc \in {"respond", "done"} => queries = maxAttempts
        /\ pc = "done" => wfile = <<FailureOutcome("")>>
\* C20: a status that is none of Pending, InProgress, Completed, Failed is
\* treated as non-terminal: each such answer uses one attempt, polling goes on,
\* and 20 such answers end the run the way 20 Pending answers do.
C20_UnknownStatusNonTerminal ==
    TreatedAsNonTerminal("Cancelled") /\ TreatedAsNonTerminal("Pending")
\* Twenty answers with the unknown status, then the failure response.
C20_Witness ==
    /\ answered = "Cancelled"
    /\ queries = 20
    /\ counter = 20
    /\ pc = "done"
    /\ wfile = <<FailureOutcome("")>>

\* A do_POST call is in progress.
RunInProgress == pc # "idle"
\* Requests whose do_POST call has started.
started == arrived - backlog
\* C14 as stated: runs started by simultaneous requests proceed concurrently:
\* a run that is still polling does not keep a waiting request from starting.
C14_Original ==
    (backlog > 0 /\ pc \in {"loop", "sleep", "query", "branch"}) => ENABLED Receive
\* C14 as amended: the runs are handled one at a time: a request that arrives
\* while a run is in progress waits until that do_POST call is over. Each run
\* starts with its own attempt counter, flags and failure details, counts only
\* its own answers, and succeeds only on its own Completed answer, whatever
\* the runs before it did.
C14_RunsSerial ==
    /\ started - served \in {0, 1}
    /\ RunInProgress <=> (started = served + 1)
    /\ (RunInProgress /\ backlog > 0) => ~ENABLED Receive
    /\ (pc \in {"loop", "sleep", "query"} /\ ~isSuccess) => counter = queries
    /\ (pc = "loop" /\ queries = 0) => (isPending /\ ~isSuccess /\ failureDetails = "")
    /\ isSuccess => (CompletedAtK /\ AllDownloadsOk)
    /\ pc = "done" => (wfile = <<SuccessOutcome>> <=> CompletedAtK)
\* The first run is in its second poll iteration while the second request
\* waits on the socket.
C14_Witness ==
    /\ served = 0
    /\ arrived = 2
    /\ backlog = 1
    /\ pc = "sleep"
    /\ counter = 1
    /\ queries = 1

====
